---- MODULE Spec2Model ----
(***************************************************************************)
(* The chat client of src/ChatApp.jsx (the App component, lines 114-516):  *)
(* identity resolution, the document-store listener, the store write       *)
(* function and one conversational turn (handleSubmit / getGeminiResponse) *)
(* with its retry loop.  Every await of the source is a point where the    *)
(* other callbacks may run, so every await ends an action.                 *)
(*                                                                         *)
(* Strings are sequences of tokens, so that trimming and concatenation are *)
(* computed and not assumed.  The empty sequence is the empty (or absent)  *)
(* string, which JavaScript treats as false.                               *)
(***************************************************************************)
EXTENDS Integers, Sequences, FiniteSets, TLC

\* ------------------------------------------------------------------ bounds
MaxTurns == 1
MaxRemoteWrites == 1

\* ------------------------------------------------------- program constants
maxRetries == 3
MaxSources == 5
BackoffBaseMs == 1000

Null == "null"
Uid == "u1"
\* a second identity the provider may issue at sign-in
OtherUid == "u2"
Uids == {Uid, OtherUid}

WelcomeText == <<"Hello! I am your Christian Wisdom Chatbot. I'm here to offer guidance, context, and information on faith, theology, and scripture. How may I help you today?">>
ApologyText == <<"I encountered an error trying to connect to my knowledge base. Please try again later.">>
SourcesHeader == "\n\nSources:\n"

\* ----------------------------------------------------------- pure helpers
Min(a, b) == IF a < b THEN a ELSE b

RECURSIVE TrimLeft(_)
TrimLeft(s) == IF s # <<>> /\ Head(s) = " " THEN TrimLeft(Tail(s)) ELSE s

RECURSIVE TrimRight(_)
TrimRight(s) == IF s # <<>> /\ s[Len(s)] = " " THEN TrimRight(SubSeq(s, 1, Len(s) - 1)) ELSE s

\* String.prototype.trim
Trim(s) == TrimRight(TrimLeft(s))

RECURSIVE Pow2(_)
Pow2(n) == IF n = 0 THEN 1 ELSE 2 * Pow2(n - 1)

\* Math.pow(2, attempt) * 1000
BackoffConstant(k) == BackoffBaseMs

BackoffDelay(k) == Pow2(k) * BackoffBaseMs

Message(r, t, ts) == [role |-> r, text |-> t, timestamp |-> ts]

WelcomeMessage(ts) == Message("model", WelcomeText, ts)

\* the role as it would be if it were passed through as stored
ApiRoleAsStored(r) == r

\* role === 'model' ? 'model' : 'user'
ApiRole(r) == IF r = "model" THEN "model" ELSE "user"

\* updatedHistory.map(({role, text}) => ({role: ..., parts: [{text}]}))
HistoryForApi(h) == [i \in 1..Len(h) |-> [role |-> ApiRole(h[i].role), parts |-> <<[text |-> h[i].text]>>]]

\* The body of one completion call: JSON.stringify(payload), payload built once
\* before the loop; cur is the in-memory transcript at the time of the call.
RequestFromLatest(pl, cur) == HistoryForApi(cur)

RequestContents(pl, cur) == pl

\* response.ok
StatusOk(s) == s >= 200 /\ s <= 299

\* response.status === 429 && attempt < maxRetries - 1
RetryAlways(s, k) == s = 429

RetryAnyStatus(s, k) == k < maxRetries - 1

ShouldRetry(s, k) == s = 429 /\ k < maxRetries - 1

\* ------------------------------------------------- the 2xx response body
NoCand == [present |-> FALSE, partsText |-> <<>>, text |-> <<>>, gmPresent |-> FALSE, atts |-> <<>>]

\* result?.candidates?.[0] || result?.candidate || null
Candidate(res) ==
  IF res.cands0.present THEN res.cands0
  ELSE IF res.candidate.present THEN res.candidate
  ELSE NoCand

\* the three shapes tried in turn; <<>> is "no text"
BotText(res) ==
  LET c == Candidate(res) IN
  IF c.partsText # <<>> THEN c.partsText
  ELSE IF c.text # <<>> THEN c.text
  ELSE IF res.output # <<>> THEN res.output
  ELSE <<>>

\* candidate?.groundingMetadata || result?.groundingMetadata, then its attributions
GroundingAtts(res) ==
  LET c == Candidate(res) IN
  IF c.gmPresent THEN c.atts
  ELSE IF res.gmPresent THEN res.atts
  ELSE <<>>

\* one attribution as a line; <<>> is null
AttLine(att) ==
  LET title == IF att.webTitle # "" THEN att.webTitle ELSE att.source
      uri == IF att.webUri # "" THEN att.webUri ELSE att.uri
  IN IF title # "" /\ uri # "" THEN <<"- ", title, ": ", uri>>
     ELSE IF uri # "" THEN <<"- ", uri>>
     ELSE <<>>

\* .map(...).filter(Boolean)
SourceLines(atts) ==
  SelectSeq([i \in 1..Len(atts) |-> AttLine(atts[i])], LAMBDA l : l # <<>>)

\* slice as it would be without the cap
SliceAll(s, n) == s

\* Array.prototype.slice(0, n)
SliceFirst(s, n) == SubSeq(s, 1, Min(n, Len(s)))

\* Array.prototype.join
RECURSIVE Join(_, _)
Join(ls, sep) ==
  IF ls = <<>> THEN <<>>
  ELSE IF Len(ls) = 1 THEN ls[1]
  ELSE ls[1] \o <<sep>> \o Join(Tail(ls), sep)

\* botText, with the Sources list appended when there is one
ReplyText(res) ==
  LET sources == SourceLines(GroundingAtts(res)) IN
  IF Len(sources) > 0
  THEN BotText(res) \o <<SourcesHeader>> \o Join(SliceFirst(sources, MaxSources), "\n")
  ELSE BotText(res)

\* the Error thrown for a non-2xx status
StatusError(s) == <<"API Request failed with status: ", ToString(s)>>
MalformedError == <<"Received empty or malformed response from the model.">>
FetchError == <<"TypeError: Failed to fetch">>
JsonError == <<"SyntaxError: Unexpected token">>

\* the text of the message the catch block appends
ErrorTextLeaks(err) == err

ErrorText(err) == ApologyText

\* ------------------------------------------------------ environment inputs
Att(wt, src, wu, u) == [webTitle |-> wt, source |-> src, webUri |-> wu, uri |-> u]

Cand(pt, t, gm, as) == [present |-> TRUE, partsText |-> pt, text |-> t, gmPresent |-> gm, atts |-> as]

Body(c0, c, out, gm, as) == [cands0 |-> c0, candidate |-> c, output |-> out, gmPresent |-> gm, atts |-> as]

TwoAtts == <<Att("t1", "", "u1", ""), Att("", "", "", "u2")>>

\* seven attributions, each with a title and a URI
SevenTitles == <<"s1", "s2", "s3", "s4", "s5", "s6", "s7">>
SevenUris == <<"w1", "w2", "w3", "w4", "w5", "w6", "w7">>
SevenAtts == [i \in 1..7 |-> Att(SevenTitles[i], "", SevenUris[i], "")]

Bodies ==
  { Body(Cand(<<"A">>, <<>>, FALSE, <<>>), NoCand, <<>>, FALSE, <<>>),
    Body(Cand(<<"A">>, <<"B">>, TRUE, TwoAtts), NoCand, <<"B">>, FALSE, <<>>),
    Body(NoCand, Cand(<<>>, <<"A">>, FALSE, <<>>), <<>>, TRUE, TwoAtts),
    Body(NoCand, NoCand, <<"A">>, FALSE, <<>>),
    Body(Cand(<<"A">>, <<>>, TRUE, <<Att("t", "", "", "")>>), NoCand, <<>>, TRUE, TwoAtts),
    Body(Cand(<<>>, <<>>, FALSE, <<>>), NoCand, <<>>, FALSE, <<>>),
    Body(NoCand, NoCand, <<>>, FALSE, <<>>) }

\* seven attributions of which the first has no URI, the second has its title
\* and URI in the fields source and uri, and the fourth has a URI only
MixedAtts ==
  << Att("m1", "", "", ""), Att("", "m2", "", "v2"), Att("m3", "", "v3", ""),
     Att("", "", "v4", ""), Att("m5", "", "v5", ""), Att("m6", "", "v6", ""),
     Att("m7", "", "v7", "") >>

\* 2xx bodies for the Sources list; each has a reply text of its own
SourceBodies ==
  { Body(Cand(<<"b1">>, <<>>, FALSE, <<>>), NoCand, <<>>, FALSE, <<>>),
    Body(Cand(<<"b2">>, <<>>, TRUE, SevenAtts), NoCand, <<>>, FALSE, <<>>),
    Body(NoCand, Cand(<<>>, <<"b3">>, FALSE, <<>>), <<>>, TRUE, TwoAtts),
    Body(Cand(<<"b4">>, <<>>, TRUE, <<Att("t", "", "", "")>>), NoCand, <<>>, TRUE, TwoAtts),
    Body(Cand(<<"b5">>, <<>>, TRUE, MixedAtts), NoCand, <<>>, FALSE, <<>>),
    Body(Cand(<<"b6">>, <<>>, TRUE, <<>>), NoCand, <<>>, FALSE, <<>>),
    Body(NoCand, NoCand, <<"b7">>, TRUE, SubSeq(SevenAtts, 1, 5)) }

ErrorStatuses == {429, 500}

\* what the user may have typed
Inputs == { <<" ">>, <<" ", "q", " ">> }

Doc(e, a, ms) == [exists |-> e, isArray |-> a, messages |-> ms]

PriorHistory == <<Message("user", <<"p">>, 0), Message("model", <<"A">>, 0)>>
RemoteHistory == <<Message("user", <<"r">>, 0), Message("assistant", <<"A">>, 0)>>

InitialDocs ==
  { Doc(FALSE, FALSE, <<>>), Doc(TRUE, TRUE, <<>>), Doc(TRUE, FALSE, <<>>), Doc(TRUE, TRUE, PriorHistory) }

RemoteDocs == { Doc(TRUE, TRUE, RemoteHistory), Doc(TRUE, TRUE, <<>>) }

\* ------------------------------------------------------------------- state
VARIABLES
  mounted, db, authUser, authNotify, signIn, userId, isAuthReady,
  chatHistory, input, isProcessing, isDbLoading,
  listener, snapQ, storeDoc, writeQ, remoteWrites,
  pc, updatedHistory, payload, attempt, wakeAt, now,
  startHistory, query, callTimes, delays, trace, lastRequest, turnSet, turns, activeTurns,
  lastFinalOk

authVars == <<mounted, db, authUser, authNotify, signIn, userId, isAuthReady>>
uiVars == <<chatHistory, input, isProcessing, isDbLoading>>
storeVars == <<listener, snapQ, storeDoc, writeQ, remoteWrites>>
turnVars == <<pc, updatedHistory, payload, attempt, wakeAt>>
histVars == <<startHistory, query, callTimes, delays, trace, lastRequest, turnSet, turns, activeTurns, lastFinalOk>>
vars == <<authVars, uiVars, storeVars, turnVars, histVars, now>>

Init ==
  /\ mounted = FALSE
  /\ db = FALSE
  /\ authUser \in {Null, Uid}
  /\ authNotify = FALSE
  /\ signIn = "none"
  /\ userId = Null
  /\ isAuthReady = FALSE
  /\ chatHistory = <<>>
  /\ input = <<>>
  /\ isProcessing = FALSE
  /\ isDbLoading = TRUE
  /\ listener = "off"
  /\ snapQ = <<>>
  /\ storeDoc \in InitialDocs
  /\ writeQ = <<>>
  /\ remoteWrites = 0
  /\ pc = "idle"
  /\ updatedHistory = <<>>
  /\ payload = <<>>
  /\ attempt = 0
  /\ wakeAt = 0
  /\ now = 0
  /\ startHistory = <<>>
  /\ query = <<>>
  /\ callTimes = <<>>
  /\ delays = <<>>
  /\ trace = <<>>
  /\ lastRequest = <<>>
  /\ turnSet = <<>>
  /\ turns = 0
  /\ activeTurns = 0
  /\ lastFinalOk = FALSE

\* ------------------------------------------------- the listener effect
\* the effect as it would be without the test of userId
ListenerEffectNoUid(db2, ready2, uid2) ==
  IF <<db2, ready2, uid2>> # <<db, isAuthReady, userId>> /\ db2 /\ ready2
  THEN /\ isDbLoading' = TRUE
       /\ listener' = "on"
       /\ snapQ' = <<storeDoc>>
  ELSE UNCHANGED <<isDbLoading, listener, snapQ>>

\* The effect of lines 173-237 runs after a render in which db, isAuthReady or
\* userId changed; it subscribes when all three are set.  The store answers a
\* new subscription with the current document.
ListenerEffect(db2, ready2, uid2) ==
  IF <<db2, ready2, uid2>> # <<db, isAuthReady, userId>> /\ db2 /\ ready2 /\ uid2 # Null
  THEN /\ isDbLoading' = TRUE
       /\ listener' = "on"
       /\ snapQ' = <<storeDoc>>
  ELSE UNCHANGED <<isDbLoading, listener, snapQ>>

\* --------------------------------------------------- startup and identity
\* The mount effect: initializeApp / getFirestore / getAuth and the registration
\* of the auth observer, or the catch block when the setup throws.
FirebaseInit(ok) ==
  /\ ~mounted
  /\ mounted' = TRUE
  /\ db' = ok
  /\ authNotify' = ok
  /\ UNCHANGED <<authUser, signIn, userId, isAuthReady>>
  /\ UNCHANGED <<uiVars, storeVars, turnVars, histVars, now>>

\* a mutant of the callback: anonymous sign-in whenever there is no user
AuthStateChangedAnonymous(token) ==
  /\ authNotify
  /\ authNotify' = FALSE
  /\ IF authUser # Null
     THEN /\ userId' = authUser
          /\ isAuthReady' = TRUE
          /\ signIn' = signIn
          /\ ListenerEffect(db, TRUE, authUser)
     ELSE /\ signIn' = "anon"
          /\ UNCHANGED <<userId, isAuthReady, isDbLoading, listener, snapQ>>
  /\ UNCHANGED <<mounted, db, authUser>>
  /\ UNCHANGED <<chatHistory, input, isProcessing, storeDoc, writeQ, remoteWrites>>
  /\ UNCHANGED <<turnVars, histVars, now>>

\* onAuthStateChanged's callback: handleAuth(user) up to its first await.
\* token is initialAuthToken being set; handleAuth reads it only here, for a
\* null user, which the observer is called with at most once.
AuthStateChanged(token) ==
  /\ authNotify
  /\ authNotify' = FALSE
  /\ IF authUser # Null
     THEN /\ userId' = authUser
          /\ isAuthReady' = TRUE
          /\ signIn' = signIn
          /\ ListenerEffect(db, TRUE, authUser)
     ELSE /\ signIn' = IF token THEN "token" ELSE "anon"
          /\ UNCHANGED <<userId, isAuthReady, isDbLoading, listener, snapQ>>
  /\ UNCHANGED <<mounted, db, authUser>>
  /\ UNCHANGED <<chatHistory, input, isProcessing, storeDoc, writeQ, remoteWrites>>
  /\ UNCHANGED <<turnVars, histVars, now>>

\* signInWithCustomToken / signInAnonymously resolves.  The provider notifies the
\* auth observer of the new user in the task in which it settles the promise, so
\* the observer's handleAuth(user) and the rest of the waiting handleAuth run
\* with nothing in between: setUserId(user.uid), setUserId(credential uid),
\* setIsAuthReady(true).  hasUid is the uid being there (the token branch
\* tests credential?.user?.uid).
\* u is the identity the provider signs in.
SignInResolvesAs(hasUid, u) ==
  /\ signIn # "none"
  /\ hasUid \/ signIn = "token"
  /\ signIn' = "none"
  /\ authUser' = u
  /\ userId' = IF hasUid THEN u ELSE userId
  /\ isAuthReady' = TRUE
  /\ ListenerEffect(db, TRUE, userId')
  /\ UNCHANGED <<mounted, db, authNotify>>
  /\ UNCHANGED <<chatHistory, input, isProcessing, storeDoc, writeQ, remoteWrites>>
  /\ UNCHANGED <<turnVars, histVars, now>>

\* the sign-in resolves with the identity Uid
SignInResolves(hasUid) == SignInResolvesAs(hasUid, Uid)

\* the sign-in rejects: logged, and handleAuth goes on to setIsAuthReady(true)
SignInRejects ==
  /\ signIn # "none"
  /\ signIn' = "none"
  /\ isAuthReady' = TRUE
  /\ ListenerEffect(db, TRUE, userId)
  /\ UNCHANGED <<mounted, db, authUser, authNotify, userId>>
  /\ UNCHANGED <<chatHistory, input, isProcessing, storeDoc, writeQ, remoteWrites>>
  /\ UNCHANGED <<turnVars, histVars, now>>

\* ------------------------------------------------------ the store listener
\* setChatHistory((prev) => prev.length === 0 ? [welcome] : prev)
SeedWelcome(prev, ts) == IF Len(prev) = 0 THEN <<WelcomeMessage(ts)>> ELSE prev

\* the mutants of the snapshot callback
ReconcileMerge(prev, d, ts) ==
  IF d.exists /\ d.isArray /\ Len(d.messages) > 0 THEN prev \o d.messages
  ELSE SeedWelcome(prev, ts)

ReconcileAlwaysSeed(prev, d, ts) ==
  IF d.exists /\ d.isArray /\ Len(d.messages) > 0 THEN d.messages
  ELSE prev \o <<WelcomeMessage(ts)>>

\* the snapshot callback's new transcript
ReconcileRemote(prev, d, ts) ==
  IF d.exists
  THEN IF d.isArray /\ Len(d.messages) > 0 THEN d.messages ELSE SeedWelcome(prev, ts)
  ELSE SeedWelcome(prev, ts)

\* the snapshot callback as it would be if it stood back during a turn
SnapshotDeliveredWhenIdle ==
  /\ listener = "on"
  /\ snapQ # <<>>
  /\ ~isProcessing
  /\ chatHistory' = ReconcileRemote(chatHistory, Head(snapQ), now)
  /\ isDbLoading' = FALSE
  /\ snapQ' = Tail(snapQ)
  /\ UNCHANGED <<input, isProcessing, listener, storeDoc, writeQ, remoteWrites>>
  /\ UNCHANGED <<authVars, turnVars, histVars, now>>

\* the snapshot callback as it would be if it persisted what it set
SnapshotDeliveredPersists ==
  /\ listener = "on"
  /\ snapQ # <<>>
  /\ chatHistory' = ReconcileRemote(chatHistory, Head(snapQ), now)
  /\ isDbLoading' = FALSE
  /\ snapQ' = Tail(snapQ)
  /\ writeQ' = IF chatHistory' # chatHistory
               THEN Append(writeQ, [messages |-> chatHistory', awaited |-> FALSE])
               ELSE writeQ
  /\ UNCHANGED <<input, isProcessing, listener, storeDoc, remoteWrites>>
  /\ UNCHANGED <<authVars, turnVars, histVars, now>>

SnapshotDelivered ==
  /\ listener = "on"
  /\ snapQ # <<>>
  /\ chatHistory' = ReconcileRemote(chatHistory, Head(snapQ), now)
  /\ isDbLoading' = FALSE
  /\ snapQ' = Tail(snapQ)
  /\ UNCHANGED <<input, isProcessing, listener, storeDoc, writeQ, remoteWrites>>
  /\ UNCHANGED <<authVars, turnVars, histVars, now>>

\* the error callback as it would be if it seeded the welcome like the
\* empty-snapshot branches
SnapshotErrorSeeds ==
  /\ listener = "on"
  /\ isDbLoading' = FALSE
  /\ listener' = "error"
  /\ snapQ' = <<>>
  /\ chatHistory' = SeedWelcome(chatHistory, now)
  /\ UNCHANGED <<input, isProcessing, storeDoc, writeQ, remoteWrites>>
  /\ UNCHANGED <<authVars, turnVars, histVars, now>>

\* the error callback; the store ends a listener that failed
SnapshotError ==
  /\ listener = "on"
  /\ isDbLoading' = FALSE
  /\ listener' = "error"
  /\ snapQ' = <<>>
  /\ UNCHANGED <<chatHistory, input, isProcessing, storeDoc, writeQ, remoteWrites>>
  /\ UNCHANGED <<authVars, turnVars, histVars, now>>

\* another session of the same identity writes the document
RemoteWrite(d) ==
  /\ listener = "on"
  /\ remoteWrites < MaxRemoteWrites
  /\ remoteWrites' = remoteWrites + 1
  /\ storeDoc' = d
  /\ snapQ' = Append(snapQ, d)
  /\ UNCHANGED <<listener, writeQ>>
  /\ UNCHANGED <<authVars, uiVars, turnVars, histVars, now>>

\* ------------------------------------------------------- the write function
\* the write function as it would be with a second attempt after the first
UpdateTwice(q, newHistory, isAwaited) ==
  IF ~db \/ userId = Null THEN q
  ELSE q \o << [messages |-> newHistory, awaited |-> isAwaited],
               [messages |-> newHistory, awaited |-> isAwaited] >>

\* updateChatInFirestore up to its await: the setDoc it issues, if any
UpdateChatInFirestore(q, newHistory, isAwaited) ==
  IF ~db \/ userId = Null THEN q
  ELSE Append(q, [messages |-> newHistory, awaited |-> isAwaited])

\* the write as it would be if it added the list to the stored one
DocAppended(d, newHistory) == Doc(TRUE, TRUE, d.messages \o newHistory)

\* setDoc(ref, {messages: newHistory, lastUpdated}, {merge: true}) applied
DocAfterWrite(d, newHistory) == Doc(TRUE, TRUE, newHistory)

StoreApplies(ok, w) ==
  /\ storeDoc' = IF ok THEN DocAfterWrite(storeDoc, w.messages) ELSE storeDoc
  /\ snapQ' = IF ok /\ listener = "on" THEN Append(snapQ, storeDoc') ELSE snapQ

\* the un-awaited write of the user append settles (a failure is only logged)
OptimisticWriteReturns(ok) ==
  /\ writeQ # <<>>
  /\ ~Head(writeQ).awaited
  /\ StoreApplies(ok, Head(writeQ))
  /\ writeQ' = Tail(writeQ)
  /\ UNCHANGED <<listener, remoteWrites>>
  /\ UNCHANGED <<authVars, uiVars, turnVars, histVars, now>>

\* ------------------------------------------------------------- the UI form
\* the text field as it would be without isDbLoading in its disabled attribute
InputWhileLoading == isAuthReady /\ ~(isProcessing \/ userId = Null)

\* the text field is rendered and not disabled (lines 403, 491)
InputEnabled == isAuthReady /\ ~(isProcessing \/ isDbLoading \/ userId = Null)

\* the submit button is rendered and not disabled (lines 403, 498)
FormSubmittable ==
  isAuthReady /\ ~(isProcessing \/ Trim(input) = <<>> \/ isDbLoading \/ userId = Null)

\* onChange: setInput(e.target.value)
TypeInput(v) ==
  /\ InputEnabled
  /\ turns < MaxTurns
  /\ input # v
  /\ input' = v
  /\ UNCHANGED <<chatHistory, isProcessing, isDbLoading>>
  /\ UNCHANGED <<authVars, storeVars, turnVars, histVars, now>>

\* ---------------------------------------------------------------- one turn
\* setIsProcessing(true) at the head of getGeminiResponse
ProcessingNotSet == FALSE

ProcessingAtStart == TRUE

\* getGeminiResponse(userQuery) up to the first await: the user append, the
\* optimistic write, the payload and the first fetch call
GetGeminiResponse(userQuery) ==
  LET newUserMessage == Message("user", userQuery, now)
      updated == Append(chatHistory, newUserMessage)
  IN /\ isProcessing' = ProcessingAtStart
     /\ chatHistory' = updated
     /\ writeQ' = UpdateChatInFirestore(writeQ, updated, FALSE)
     /\ updatedHistory' = updated
     /\ payload' = HistoryForApi(updated)
     /\ attempt' = 0
     /\ pc' = "fetch"
     /\ lastRequest' = RequestContents(payload', chatHistory')
     /\ callTimes' = <<now>>
     /\ delays' = <<>>
     /\ trace' = <<>>
     /\ startHistory' = chatHistory
     /\ query' = userQuery
     /\ turnSet' = updated
     /\ activeTurns' = activeTurns + 1
     /\ lastFinalOk' = FALSE
     /\ UNCHANGED <<wakeAt, turns, isDbLoading, listener, snapQ, storeDoc, remoteWrites>>

\* a submit event of the form reaches handleSubmit
Submit ==
  /\ FormSubmittable
  /\ turns < MaxTurns
  /\ IF Trim(input) # <<>> /\ ~isProcessing /\ db /\ userId # Null
     THEN GetGeminiResponse(Trim(input)) /\ input' = <<>>
     ELSE UNCHANGED <<uiVars, storeVars, turnVars, histVars>>
  /\ UNCHANGED <<authVars, now>>

\* the end of the turn as it would be without setIsProcessing(false)
TurnEndsPending ==
  /\ pc' = "idle"
  /\ isProcessing' = isProcessing
  /\ activeTurns' = activeTurns - 1
  /\ turns' = turns + 1

\* setIsProcessing(false) after the loop
TurnEnds ==
  /\ pc' = "idle"
  /\ isProcessing' = FALSE
  /\ activeTurns' = activeTurns - 1
  /\ turns' = turns + 1

\* the locals of a call that has returned, and the record kept of it
TurnLocalsDropped ==
  /\ updatedHistory' = <<>>
  /\ payload' = <<>>
  /\ attempt' = 0
  /\ wakeAt' = 0
  /\ startHistory' = <<>>
  /\ query' = <<>>
  /\ callTimes' = <<>>
  /\ delays' = <<>>
  /\ trace' = <<>>
  /\ lastRequest' = <<>>
  /\ turnSet' = <<>>

\* the append and the awaited write in the other order: the write is issued
\* with the transcript as it was before the append
PersistThenAppend(h) ==
  /\ writeQ' = UpdateChatInFirestore(writeQ, chatHistory, TRUE)
  /\ chatHistory' = h
  /\ turnSet' = h
  /\ pc' = "write"
  /\ UNCHANGED <<isProcessing, activeTurns>>

\* the append as it would be with the functional updater: onto the transcript
\* in memory at that moment
AppendToCurrent(h) ==
  /\ chatHistory' = Append(chatHistory, h[Len(h)])
  /\ turnSet' = chatHistory'
  /\ writeQ' = UpdateChatInFirestore(writeQ, chatHistory', TRUE)
  /\ pc' = "write"
  /\ UNCHANGED <<isProcessing, activeTurns>>

\* setChatHistory(h); await updateChatInFirestore(h); break
AppendAndPersist(h) ==
  /\ chatHistory' = h
  /\ turnSet' = h
  /\ writeQ' = UpdateChatInFirestore(writeQ, h, TRUE)
  /\ pc' = "write"
  /\ UNCHANGED <<isProcessing, activeTurns>>

\* the catch block
CatchWithoutMessage(err) == AppendAndPersist(updatedHistory)

Catch(err) == AppendAndPersist(Append(updatedHistory, Message("model", ErrorText(err), now)))

TurnStepFrame ==
  /\ UNCHANGED <<authVars, input, isDbLoading, listener, snapQ, storeDoc, remoteWrites>>
  /\ UNCHANGED <<updatedHistory, payload, startHistory, query, turns, lastFinalOk, now>>

\* fetch rejects (transport failure)
FetchRejects ==
  /\ pc = "fetch"
  /\ trace' = Append(trace, "reject")
  /\ Catch(FetchError)
  /\ UNCHANGED <<attempt, wakeAt, callTimes, delays, lastRequest>>
  /\ TurnStepFrame

\* a 429 with attempts left: the backoff timer is set
FetchRateLimited(s) ==
  /\ pc = "fetch"
  /\ ~StatusOk(s)
  /\ ShouldRetry(s, attempt)
  /\ trace' = Append(trace, ToString(s))
  /\ delays' = Append(delays, BackoffDelay(attempt))
  /\ wakeAt' = now + BackoffDelay(attempt)
  /\ pc' = "backoff"
  /\ UNCHANGED <<chatHistory, isProcessing, writeQ, activeTurns, attempt, callTimes, lastRequest, turnSet>>
  /\ TurnStepFrame

\* any other non-2xx status: throw, caught below
FetchFails(s) ==
  /\ pc = "fetch"
  /\ ~StatusOk(s)
  /\ ~ShouldRetry(s, attempt)
  /\ trace' = Append(trace, ToString(s))
  /\ Catch(StatusError(s))
  /\ UNCHANGED <<attempt, wakeAt, callTimes, delays, lastRequest>>
  /\ TurnStepFrame

\* a 2xx whose body does not parse: response.json() rejects
FetchJsonRejects ==
  /\ pc = "fetch"
  /\ trace' = Append(trace, "badjson")
  /\ Catch(JsonError)
  /\ UNCHANGED <<attempt, wakeAt, callTimes, delays, lastRequest>>
  /\ TurnStepFrame

\* a 2xx with a JSON body: the reply is extracted, or the body is malformed
FetchReturnsBody(res) ==
  /\ pc = "fetch"
  /\ IF BotText(res) = <<>>
     THEN /\ trace' = Append(trace, "malformed")
          /\ Catch(MalformedError)
     ELSE /\ trace' = Append(trace, "ok")
          /\ AppendAndPersist(Append(updatedHistory, Message("model", ReplyText(res), now)))
  /\ UNCHANGED <<attempt, wakeAt, callTimes, delays, lastRequest>>
  /\ TurnStepFrame

\* time passes while a backoff timer runs
Tick ==
  /\ pc = "backoff"
  /\ now < wakeAt
  /\ now' = now + BackoffBaseMs
  /\ UNCHANGED <<authVars, uiVars, storeVars, turnVars, histVars>>

\* the timer fires: continue, attempt++, the loop test, the next fetch call
BackoffElapsed ==
  /\ pc = "backoff"
  /\ now >= wakeAt
  /\ IF attempt + 1 < maxRetries
     THEN /\ attempt' = attempt + 1
          /\ pc' = "fetch"
          /\ lastRequest' = RequestContents(payload, chatHistory)
          /\ callTimes' = Append(callTimes, now)
          /\ UNCHANGED <<isProcessing, activeTurns, wakeAt, delays, trace>>
          /\ UNCHANGED <<updatedHistory, payload, startHistory, query, turnSet, turns>>
     ELSE /\ TurnEnds
          /\ TurnLocalsDropped
  /\ UNCHANGED <<chatHistory, writeQ, lastFinalOk, now>>
  /\ UNCHANGED <<authVars, input, isDbLoading, listener, snapQ, storeDoc, remoteWrites>>

\* whether updateChatInFirestore went past its early return for the awaited write
AwaitedIssued == \E i \in 1..Len(writeQ) : writeQ[i].awaited

\* the awaited write of the final transcript settles; the turn ends either way
\* (lastFinalOk records whether that setDoc resolved, until the next turn starts)
FinalWriteReturns(ok) ==
  /\ pc = "write"
  /\ AwaitedIssued => Head(writeQ).awaited
  /\ IF AwaitedIssued
     THEN StoreApplies(ok, Head(writeQ)) /\ writeQ' = Tail(writeQ)
     ELSE UNCHANGED <<storeDoc, snapQ, writeQ>>
  /\ lastFinalOk' = (ok /\ AwaitedIssued)
  /\ TurnEnds
  /\ TurnLocalsDropped
  /\ UNCHANGED <<chatHistory, input, isDbLoading, listener, remoteWrites>>
  /\ UNCHANGED <<authVars, now>>

Next ==
  \/ \E ok \in BOOLEAN : FirebaseInit(ok)
  \/ \E token \in BOOLEAN : AuthStateChanged(token)
  \/ \E hasUid \in BOOLEAN : SignInResolves(hasUid)
  \/ SignInRejects
  \/ SnapshotDelivered
  \/ SnapshotError
  \/ \E d \in RemoteDocs : RemoteWrite(d)
  \/ \E ok \in BOOLEAN : OptimisticWriteReturns(ok)
  \/ \E v \in Inputs : TypeInput(v)
  \/ Submit
  \/ FetchRejects
  \/ \E s \in ErrorStatuses : FetchRateLimited(s)
  \/ \E s \in ErrorStatuses : FetchFails(s)
  \/ FetchJsonRejects
  \/ \E res \in Bodies : FetchReturnsBody(res)
  \/ Tick
  \/ BackoffElapsed
  \/ \E ok \in BOOLEAN : FinalWriteReturns(ok)

Spec == Init /\ [][Next]_vars

\* a completion call returns: fetch settles, and so does response.json()
FetchReturns ==
  \/ FetchRejects
  \/ \E s \in ErrorStatuses : FetchRateLimited(s)
  \/ \E s \in ErrorStatuses : FetchFails(s)
  \/ FetchJsonRejects
  \/ \E res \in Bodies : FetchReturnsBody(res)

\* a write sent to the store settles; the store settles them in the order sent
WriteReturns ==
  \/ \E ok \in BOOLEAN : OptimisticWriteReturns(ok)
  \/ \E ok \in BOOLEAN : FinalWriteReturns(ok)

\* The program in a single session: no other session writes the document, and
\* the provider signs in either of two identities.
SessionNext ==
  \/ \E ok \in BOOLEAN : FirebaseInit(ok)
  \/ \E token \in BOOLEAN : AuthStateChanged(token)
  \/ \E hasUid \in BOOLEAN, u \in Uids : SignInResolvesAs(hasUid, u)
  \/ SignInRejects
  \/ SnapshotDelivered
  \/ SnapshotError
  \/ \E v \in Inputs : TypeInput(v)
  \/ Submit
  \/ FetchReturns
  \/ WriteReturns
  \/ Tick
  \/ BackoffElapsed

SessionSpec == Init /\ [][SessionNext]_vars

\* The single session with collaborators that answer: every completion call
\* and every write returns, time passes and a timer that is due fires.
FairSpec ==
  /\ SessionSpec
  /\ WF_vars(FetchReturns)
  /\ WF_vars(WriteReturns)
  /\ WF_vars(Tick)
  /\ WF_vars(BackoffElapsed)

\* The same program with the completion API answering every call with a 2xx
\* body of SourceBodies, and a store that is read without error and written
\* by this session only; identity resolution succeeds.
SourcesNext ==
  \/ \E ok \in BOOLEAN : FirebaseInit(ok)
  \/ \E token \in BOOLEAN : AuthStateChanged(token)
  \/ \E hasUid \in BOOLEAN : SignInResolves(hasUid)
  \/ SnapshotDelivered
  \/ \E ok \in BOOLEAN : OptimisticWriteReturns(ok)
  \/ \E v \in Inputs : TypeInput(v)
  \/ Submit
  \/ \E res \in SourceBodies : FetchReturnsBody(res)
  \/ \E ok \in BOOLEAN : FinalWriteReturns(ok)

SourcesSpec == Init /\ [][SourcesNext]_vars

\* ---------------------------------------------------------------- claims
Last(h) == h[Len(h)]

\* the texts a 2xx body of the environment can carry as its reply
BodyTexts == { <<"A">>, <<"B">> }

\* the pieces of an error: status codes and exception messages
ErrorDetails ==
  { ToString(st) : st \in ErrorStatuses \cup {200} }
    \cup { StatusError(0)[1], MalformedError[1], FetchError[1], JsonError[1] }

\* trace entries that are failures other than a 429
TerminalFailures == { "reject", "500", "badjson", "malformed" }

\* h ends with a user message carrying q followed by one model message, after h0
ExtendsByTurn(h, h0, q) ==
  /\ Len(h) = Len(h0) + 2
  /\ SubSeq(h, 1, Len(h0)) = h0
  /\ h[Len(h0) + 1].role = "user"
  /\ h[Len(h0) + 1].text = q
  /\ h[Len(h0) + 2].role = "model"

\* C1: one run of getGeminiResponse, started by handleSubmit for a non-empty
\* trimmed query, first sets the transcript to the one it started from plus the
\* user message, and on every outcome of the completion call (2xx with text,
\* other status, 429 on all attempts, fetch rejecting, malformed or unparsable
\* body) leaves the fetch loop by setting it to the starting transcript plus
\* exactly that user message and exactly one model message; a 429 with
\* attempts left only waits, and the turn ends only after that append.
C1_TurnAppendsUserThenAssistant ==
  [][ /\ (pc = "idle" /\ pc' # "idle") =>
           /\ pc' = "fetch"
           /\ Trim(input) # <<>>
           /\ Len(chatHistory') = Len(chatHistory) + 1
           /\ SubSeq(chatHistory', 1, Len(chatHistory)) = chatHistory
           /\ Last(chatHistory').role = "user"
           /\ Last(chatHistory').text = Trim(input)
      /\ (pc = "fetch" /\ pc' # "fetch") =>
           \/ /\ pc' = "backoff"
              /\ Last(trace') = "429"
              /\ Len(trace') < maxRetries
              /\ chatHistory' = chatHistory
           \/ /\ pc' = "write"
              /\ ExtendsByTurn(chatHistory', startHistory, query)
      /\ (pc = "backoff" /\ pc' # "backoff") => pc' = "fetch"
      /\ (pc = "write" /\ pc' # "write") => pc' = "idle"
    ]_vars

\* C1 witness: the turn has answered three 429s and the transcript is the
\* starting one plus the question and one model message
C1_Witness ==
  /\ pc = "write"
  /\ trace = <<"429", "429", "429">>
  /\ query = <<"q">>
  /\ ExtendsByTurn(chatHistory, startHistory, query)

\* C2: after a completed turn (and no write by another session) the persisted
\* transcript, when there is one, ends with a user message followed by a model
\* message, whatever the optimistic and the final write did.
C2_NoDanglingUserPersisted ==
  (turns > 0 /\ pc = "idle" /\ remoteWrites = 0 /\ storeDoc.messages # <<>>) =>
    LET m == storeDoc.messages IN
    /\ Len(m) >= 2
    /\ m[Len(m) - 1].role = "user"
    /\ m[Len(m)].role = "model"

\* C3: the wait before call k+1 is at least 2^(k-1) seconds for every call made,
\* and a turn answered 429, 429, 2xx-with-text has made exactly 3 calls, has set
\* timers of 1000 ms and 2000 ms, and has appended the reply and not the apology.
C3_BackoffThenSuccess ==
  /\ \A i \in 1..(Len(callTimes) - 1) :
       /\ callTimes[i + 1] - callTimes[i] >= (IF i = 1 THEN 1000 ELSE 2000)
       /\ delays[i] = (IF i = 1 THEN 1000 ELSE 2000)
  /\ (pc = "backoff" /\ now < wakeAt) => Len(callTimes) = Len(delays)
  /\ trace = <<"429", "429", "ok">> =>
       /\ pc = "write"
       /\ Len(callTimes) = 3
       /\ delays = <<1000, 2000>>
       /\ Last(turnSet).role = "model"
       /\ Last(turnSet).text # ApologyText
       /\ \E t \in BodyTexts : SubSeq(Last(turnSet).text, 1, 1) = t

C3_Witness ==
  /\ trace = <<"429", "429", "ok">>
  /\ callTimes = <<0, 1000, 3000>>
  /\ Last(chatHistory).text = <<"A">>

\* C4: a failure other than a 429 (another status, fetch rejecting, a body that
\* does not parse or carries no text) is the last thing the turn's loop sees: no
\* completion call follows it, the message appended is the apology, and a
\* single 500 means exactly one call.
C4_TerminalFailureStopsLoop ==
  /\ \A i \in 1..Len(trace) :
       trace[i] \in TerminalFailures =>
         /\ i = Len(trace)
         /\ pc = "write"
         /\ Len(callTimes) = Len(trace)
         /\ Last(turnSet).role = "model"
         /\ Last(turnSet).text = ApologyText
  /\ trace = <<"500">> => Len(callTimes) = 1

C4_Witness ==
  /\ trace = <<"500">>
  /\ Len(callTimes) = 1
  /\ Last(chatHistory).text = ApologyText

\* C5: a turn makes at most 3 completion calls; no backoff follows the third
\* response, and a turn answered 429 three times has appended the apology.
C5_AtMostThreeCalls ==
  /\ Len(callTimes) <= 3
  /\ Len(delays) <= 2
  /\ pc = "backoff" => Len(trace) < 3
  /\ trace = <<"429", "429", "429">> =>
       /\ pc = "write"
       /\ Len(callTimes) = 3
       /\ Last(turnSet).role = "model"
       /\ Last(turnSet).text = ApologyText

C5_Witness ==
  /\ trace = <<"429", "429", "429">>
  /\ pc = "write"
  /\ Last(chatHistory).text = ApologyText

\* a step that hands the listener's callback the snapshot at the head of the queue
SnapshotStep ==
  /\ listener = "on"
  /\ listener' = "on"
  /\ snapQ # <<>>
  /\ snapQ' = Tail(snapQ)

NonEmptyList(d) == d.exists /\ d.isArray /\ d.messages # <<>>

\* C6: a snapshot whose messages list is present and non-empty replaces the
\* in-memory transcript by exactly that list, at any point, also inside a turn.
C6_NonEmptySnapshotReplaces ==
  [][ (SnapshotStep /\ NonEmptyList(Head(snapQ))) => chatHistory' = Head(snapQ).messages ]_vars

\* C6 witness: in the middle of a turn the transcript is another session's list,
\* which holds neither the starting transcript nor the question
C6_Witness ==
  /\ pc = "backoff"
  /\ chatHistory = RemoteHistory
  /\ startHistory # <<>>
  /\ chatHistory # updatedHistory

WelcomeCount(h) == Cardinality({ i \in 1..Len(h) : h[i].text = WelcomeText })

\* C7: a snapshot of an absent document, or of one with empty or non-list
\* messages, turns an empty transcript into exactly one model welcome message
\* and leaves a non-empty transcript as it is; no transcript holds two welcomes.
C7_EmptySnapshotSeedsOnce ==
  [][ /\ (SnapshotStep /\ ~NonEmptyList(Head(snapQ))) =>
           IF chatHistory = <<>>
           THEN /\ Len(chatHistory') = 1
                /\ chatHistory'[1].role = "model"
                /\ chatHistory'[1].text = WelcomeText
           ELSE chatHistory' = chatHistory
      /\ WelcomeCount(chatHistory') <= 1
    ]_vars

\* C7 witness: seeded from an empty document, then a second empty snapshot
\* (another session's write of an empty list) has been delivered
C7_Witness ==
  /\ remoteWrites = 1
  /\ storeDoc = Doc(TRUE, TRUE, <<>>)
  /\ snapQ = <<>>
  /\ listener = "on"
  /\ chatHistory = <<WelcomeMessage(0)>>

\* C8: at most one turn and at most one completion call are in flight; pending
\* is true exactly from the start of a turn to its end, and while it is true
\* the form cannot start another turn.
C8_OneTurnInFlight ==
  /\ activeTurns \in {0, 1}
  /\ (activeTurns = 1) = (pc # "idle")
  /\ isProcessing = (pc # "idle")
  /\ isProcessing => ~FormSubmittable /\ ~InputEnabled
  /\ Len(callTimes) - Len(trace) = (IF pc = "fetch" THEN 1 ELSE 0)

\* C8 witness: a turn is waiting on the completion call while the model's bound
\* would still allow another turn
C8_Witness ==
  /\ pc = "fetch"
  /\ attempt = 1
  /\ turns < MaxTurns
  /\ isProcessing

\* C9: what every attempt sends is the role-mapped transcript the turn started
\* from followed by the new user message, whatever the listener did meanwhile.
C9_ContentsEndWithUserQuery ==
  pc # "idle" =>
    /\ Len(lastRequest) = Len(startHistory) + 1
    /\ Last(lastRequest).role = "user"
    /\ Last(lastRequest).parts = <<[text |-> query]>>
    /\ query # <<>>
    /\ \A i \in 1..Len(startHistory) :
         /\ lastRequest[i].parts = <<[text |-> startHistory[i].text]>>
         /\ lastRequest[i].role = (IF startHistory[i].role = "model" THEN "model" ELSE "user")

\* C9 witness: a retry has been sent after a snapshot replaced the transcript
\* during the backoff
C9_Witness ==
  /\ pc = "fetch"
  /\ attempt >= 1
  /\ chatHistory = RemoteHistory
  /\ Last(lastRequest).parts = <<[text |-> <<"q">>]>>

\* C10: the model message a turn appends is the apology, or starts with the text
\* of a 2xx body; no part of it is a status code or an exception message.
C10_ReplyOrApology ==
  pc = "write" =>
    LET t == Last(turnSet).text IN
    /\ \/ t = ApologyText
       \/ /\ Last(trace) = "ok"
          /\ \E b \in BodyTexts : SubSeq(t, 1, 1) = b
    /\ \A i \in 1..Len(t) : t[i] \notin ErrorDetails

C10_Witness ==
  /\ pc = "write"
  /\ Last(trace) = "500"
  /\ Last(turnSet).text = ApologyText
  /\ Last(chatHistory) = Last(turnSet)

\* a step in which the write at the head of the queue settles, either way
WriteSettles == writeQ # <<>> /\ writeQ' = Tail(writeQ)

\* C11: a turn issues one write when it appends the user message and one when
\* it appends the model message, each carrying the transcript just set, and no
\* other step issues a write; a write that settles, with success or with
\* failure, leaves the transcript as it is, the optimistic one leaves the turn
\* (its calls, its attempt counter, its position) as it is, and the final one
\* only ends the turn: no message is appended and the loop is not entered again.
C11_WriteFailureChangesNothing ==
  [][ /\ Len(writeQ') > Len(writeQ) =>
           /\ writeQ' = Append(writeQ, [messages |-> chatHistory', awaited |-> (pc' = "write")])
           /\ \/ pc = "idle" /\ pc' = "fetch"
              \/ pc = "fetch" /\ pc' = "write"
      /\ (pc = "idle" /\ pc' = "fetch") => Len(writeQ') = Len(writeQ) + 1
      /\ (pc = "fetch" /\ pc' = "write") => Len(writeQ') = Len(writeQ) + 1
      /\ WriteSettles =>
           /\ chatHistory' = chatHistory
           /\ storeDoc' \in { storeDoc, Doc(TRUE, TRUE, Head(writeQ).messages) }
           /\ IF Head(writeQ).awaited
              THEN pc = "write" /\ pc' = "idle" /\ ~isProcessing'
              ELSE UNCHANGED <<pc, isProcessing, turnVars, histVars>>
    ]_vars

\* C11 witness: a turn on an absent document has ended with the welcome, the
\* question and one model message in memory while both of its writes failed
C11_Witness ==
  /\ turns = 1
  /\ pc = "idle"
  /\ writeQ = <<>>
  /\ remoteWrites = 0
  /\ storeDoc = Doc(FALSE, FALSE, <<>>)
  /\ Len(chatHistory) = 3
  /\ chatHistory[2].role = "user"
  /\ chatHistory[3].role = "model"

\* C12: the step that starts a turn appends the user message, issues the
\* optimistic write of the transcript so set and issues the first completion
\* call, which carries that message, while that write is still outstanding; the
\* step that leaves the fetch loop appends the model message and then issues
\* the awaited write of the transcript so set; no awaited write is issued while
\* the loop runs; and isProcessing goes back to false only in the step in which
\* the awaited write settles.
C12_OrderWithinTurn ==
  [][ /\ (pc = "idle" /\ pc' = "fetch") =>
           /\ chatHistory' = Append(chatHistory, Message("user", Trim(input), now))
           /\ writeQ' = Append(writeQ, [messages |-> chatHistory', awaited |-> FALSE])
           /\ callTimes' = <<now>>
           /\ Last(lastRequest').parts = <<[text |-> Last(chatHistory').text]>>
           /\ isProcessing'
      /\ (pc' \in {"fetch", "backoff"}) =>
           \A i \in 1..Len(writeQ') : ~writeQ'[i].awaited
      /\ (pc = "fetch" /\ pc' = "write") =>
           /\ Len(chatHistory') = Len(updatedHistory) + 1
           /\ SubSeq(chatHistory', 1, Len(updatedHistory)) = updatedHistory
           /\ Last(chatHistory').role = "model"
           /\ writeQ' = Append(writeQ, [messages |-> chatHistory', awaited |-> TRUE])
           /\ isProcessing'
      /\ (isProcessing /\ ~isProcessing') =>
           /\ pc = "write"
           /\ Head(writeQ).awaited
           /\ writeQ' = Tail(writeQ)
    ]_vars

\* C12 witness: the completion call has returned and the model message is
\* appended while the optimistic write of the turn has not settled yet
C12_Witness ==
  /\ pc = "write"
  /\ isProcessing
  /\ Len(writeQ) = 2
  /\ ~writeQ[1].awaited
  /\ writeQ[2].awaited
  /\ writeQ[2].messages = chatHistory
  /\ Last(chatHistory).role = "model"

\* C13: while userId is unset, or the store handle or isAuthReady is missing,
\* the listener is not subscribed and no snapshot is held for it, no write has
\* been sent (none is outstanding and the document is as it was at the start),
\* and no turn and no completion call has been started.
C13_NothingBeforeIdentity ==
  (userId = Null \/ ~db \/ ~isAuthReady) =>
    /\ listener = "off"
    /\ snapQ = <<>>
    /\ writeQ = <<>>
    /\ storeDoc \in InitialDocs
    /\ remoteWrites = 0
    /\ pc = "idle"
    /\ ~isProcessing
    /\ callTimes = <<>>
    /\ turns = 0
    /\ chatHistory = <<>>

\* C13 witness: identity resolution has run to its end without an identity
\* (the sign-in was rejected) and the chat screen is shown
C13_Witness ==
  /\ mounted
  /\ db
  /\ isAuthReady
  /\ userId = Null
  /\ signIn = "none"
  /\ ~authNotify
  /\ listener = "off"

\* identity resolution has failed: the observer was called with no user, the
\* sign-in it started has settled, and there is still no signed-in user
SignInFailed ==
  /\ mounted
  /\ db
  /\ ~authNotify
  /\ signIn = "none"
  /\ authUser = Null

\* C14: once the custom-token or the anonymous sign-in has been rejected, the
\* application stays in its initializing state: isAuthReady is not set, there
\* is no identity, and no further sign-in is under way.
C14_FailedSignInStaysInitializing ==
  SignInFailed =>
    /\ ~isAuthReady
    /\ userId = Null
    /\ signIn = "none"

\* C15 as claimed: a turn is in progress only with the identity and the store
\* ready and the initial load over, and it has begun from a transcript that was
\* hydrated or seeded, that is, from a non-empty one.
C15_TurnFromHydratedTranscript ==
  pc # "idle" =>
    /\ isAuthReady
    /\ userId # Null
    /\ db
    /\ ~isDbLoading
    /\ startHistory # <<>>

\* C15 as amended: at most one turn is in progress, and only with the identity
\* and the store ready and after the first snapshot or read error; while the
\* initial load is outstanding nothing has been typed and no turn has run; and
\* a turn has begun from a non-empty transcript unless the listener reported a
\* read error, after which it may begin from the empty one.
C15_NoTurnBeforeReady ==
  /\ activeTurns \in {0, 1}
  /\ pc # "idle" =>
       /\ isAuthReady
       /\ userId # Null
       /\ db
       /\ ~isDbLoading
       /\ listener # "off"
       /\ startHistory # <<>> \/ listener = "error"
  /\ isDbLoading =>
       /\ input = <<>>
       /\ pc = "idle"
       /\ turns = 0

\* C15 witness: after a read error a turn has begun from the empty transcript
\* while the document holds an earlier conversation
C15_Witness ==
  /\ pc = "fetch"
  /\ startHistory = <<>>
  /\ listener = "error"
  /\ ~isDbLoading
  /\ storeDoc = Doc(TRUE, TRUE, PriorHistory)

\* C16: the step in which the listener reports a read error clears isDbLoading
\* and changes neither the transcript (empty or not) nor the queue of writes
\* nor the document, nor anything of a turn in progress.
C16_ReadErrorLeavesTranscript ==
  [][ (listener = "on" /\ listener' = "error") =>
        /\ ~isDbLoading'
        /\ chatHistory' = chatHistory
        /\ writeQ' = writeQ
        /\ storeDoc' = storeDoc
        /\ UNCHANGED <<input, isProcessing, turnVars, histVars>>
    ]_vars

\* C16 witness: the read error came before any snapshot; the load is over and
\* the transcript is still empty, with no welcome and nothing written
C16_Witness ==
  /\ listener = "error"
  /\ ~isDbLoading
  /\ chatHistory = <<>>
  /\ writeQ = <<>>
  /\ turns = 0
  /\ pc = "idle"
  /\ storeDoc = Doc(FALSE, FALSE, <<>>)

\* m is one of the messages of h
Holds(h, m) == \E i \in 1..Len(h) : h[i] = m

\* C17: nothing holds the listener back during a turn.  Whenever a turn is in
\* progress and a snapshot with a non-empty list is waiting, the callback can
\* run, without moving the turn, and leave the transcript equal to that list;
\* so when the list lacks the message the turn appended last (the user message
\* before the model message is appended, the model message after), that
\* message is gone from the transcript.
C17_SnapshotCanDiscardTurnState ==
  (pc # "idle" /\ listener = "on" /\ snapQ # <<>> /\ NonEmptyList(Head(snapQ))) =>
    /\ ENABLED ( /\ SnapshotDelivered
                 /\ chatHistory' = Head(snapQ).messages
                 /\ UNCHANGED <<pc, isProcessing, turnSet, updatedHistory>> )
    /\ ~Holds(Head(snapQ).messages, Last(turnSet)) =>
         ENABLED (SnapshotDelivered /\ ~Holds(chatHistory', Last(turnSet)))

\* C17 witness: the model message has been appended and the awaited write is
\* outstanding, and a snapshot delivered since has left a transcript that holds
\* neither that message nor the question
C17_Witness ==
  /\ pc = "write"
  /\ isProcessing
  /\ Last(turnSet).role = "model"
  /\ ~Holds(chatHistory, Last(turnSet))
  /\ ~Holds(chatHistory, Last(updatedHistory))
  /\ snapQ = <<>>

\* the other interleaving of C17: the user message is appended, the model
\* message is not yet, and the transcript no longer holds the user message
C17_UserMessageDiscarded ==
  /\ pc \in {"fetch", "backoff"}
  /\ Last(updatedHistory).role = "user"
  /\ ~Holds(chatHistory, Last(updatedHistory))

\* a and b are the same ordered messages: same length, same role, text and
\* timestamp at each position
SameMessages(a, b) ==
  /\ Len(a) = Len(b)
  /\ \A i \in 1..Len(a) :
       /\ a[i].role = b[i].role
       /\ a[i].text = b[i].text
       /\ a[i].timestamp = b[i].timestamp

\* C18: when a write of the turn settles, either it failed and the document and
\* the listener's queue are as before, or the document holds exactly the list
\* written, that document is what the subscription is handed next, and the
\* snapshot callback applied to it, from the current transcript or from an empty
\* one, gives the written list position by position; for the awaited write that
\* is the transcript the turn set last.
C18_RoundTrip ==
  [][ WriteSettles =>
        LET w == Head(writeQ) IN
        \/ storeDoc' = storeDoc /\ snapQ' = snapQ
        \/ /\ NonEmptyList(storeDoc')
           /\ SameMessages(storeDoc'.messages, w.messages)
           /\ snapQ' = (IF listener = "on" THEN Append(snapQ, storeDoc') ELSE snapQ)
           /\ \A prev \in {chatHistory, <<>>} :
                SameMessages(ReconcileRemote(prev, storeDoc', now), w.messages)
           /\ w.awaited => ReconcileRemote(chatHistory, storeDoc', now) = turnSet
    ]_vars

\* C18 witness: the final write of a turn succeeded and every snapshot,
\* its echo included, has been delivered; the transcript is the one persisted,
\* ending with the question and the model message
C18_Witness ==
  /\ turns = 1
  /\ pc = "idle"
  /\ listener = "on"
  /\ remoteWrites = 0
  /\ writeQ = <<>>
  /\ snapQ = <<>>
  /\ Len(storeDoc.messages) = 3
  /\ storeDoc.messages[2].text = <<"q">>
  /\ storeDoc.messages[3].role = "model"
  /\ chatHistory = storeDoc.messages

\* the attribution has a URI (web.uri or uri)
HasUri(att) == att.webUri # "" \/ att.uri # ""

\* the first n attributions of atts that have a URI, in the order of atts
RECURSIVE FirstWithUri(_, _)
FirstWithUri(atts, n) ==
  IF n = 0 \/ atts = <<>> THEN <<>>
  ELSE IF HasUri(Head(atts)) THEN <<Head(atts)>> \o FirstWithUri(Tail(atts), n - 1)
  ELSE FirstWithUri(Tail(atts), n)

\* '- title: uri', or '- uri' for an attribution without a title
EntryLine(att) ==
  LET title == IF att.webTitle # "" THEN att.webTitle ELSE att.source
      uri == IF att.webUri # "" THEN att.webUri ELSE att.uri
  IN IF title # "" THEN <<"- ", title, ": ", uri>> ELSE <<"- ", uri>>

\* the entries one per line
RECURSIVE EntryLines(_)
EntryLines(es) ==
  IF es = <<>> THEN <<>>
  ELSE IF Len(es) = 1 THEN EntryLine(es[1])
  ELSE EntryLine(es[1]) \o <<"\n">> \o EntryLines(Tail(es))

NumEntries(t) == Cardinality({ i \in 1..Len(t) : t[i] = "- " })

\* the 2xx body of SourceBodies whose reply text starts like t
BodyOf(t) == CHOOSE res \in SourceBodies : BotText(res) = <<t[1]>>

\* C19: the text of the model message appended for a 2xx body is the body's
\* reply text and, when at least one of its attributions has a URI, the header
\* and the entries of the first five attributions that have one, in their
\* order, one per line, each '- title: uri' or '- uri'; with no attribution, or
\* none with a URI, the text is the reply text alone.  For seven attributions
\* with title and URI the entries are those of the first five.
C19_SourcesFirstFive ==
  (pc = "write" /\ Last(trace) = "ok") =>
    LET t == Last(turnSet).text
        res == BodyOf(t)
        entries == FirstWithUri(GroundingAtts(res), 5)
    IN /\ NumEntries(t) = Len(entries)
       /\ NumEntries(t) <= 5
       /\ IF entries = <<>>
          THEN t = BotText(res)
          ELSE t = BotText(res) \o <<SourcesHeader>> \o EntryLines(entries)
       /\ t[1] = "b2" =>
            t = << "b2", SourcesHeader,
                   "- ", "s1", ": ", "w1", "\n", "- ", "s2", ": ", "w2", "\n",
                   "- ", "s3", ": ", "w3", "\n", "- ", "s4", ": ", "w4", "\n",
                   "- ", "s5", ": ", "w5" >>
       /\ t[1] \in {"b1", "b4", "b6"} => Len(t) = 1

\* C19 witness: the reply to a body with seven attributions is in the
\* transcript with five entries, the fifth attribution's last
C19_Witness ==
  /\ pc = "write"
  /\ Last(trace) = "ok"
  /\ Last(chatHistory).role = "model"
  /\ Last(chatHistory).text[1] = "b2"
  /\ NumEntries(Last(chatHistory).text) = 5
  /\ Last(Last(chatHistory).text) = "w5"

\* C20: the step that hands the callback a snapshot, seeding or replacing,
\* issues no write and leaves the document alone; the queue of writes changes
\* only when a turn starts, when it leaves the fetch loop, and when a write
\* settles; the document changes only when a write of a turn settles, to the
\* list written, or when another session writes; and the write issued by a turn
\* that starts from the seeded transcript carries the welcome message first,
\* followed by the user message.
C20_SeedStaysLocal ==
  [][ /\ SnapshotStep => (writeQ' = writeQ /\ storeDoc' = storeDoc)
      /\ writeQ' # writeQ =>
           \/ WriteSettles
           \/ pc = "idle" /\ pc' = "fetch"
           \/ pc = "fetch" /\ pc' = "write"
      /\ storeDoc' # storeDoc =>
           \/ WriteSettles /\ storeDoc' = Doc(TRUE, TRUE, Head(writeQ).messages)
           \/ remoteWrites' = remoteWrites + 1
      /\ (pc = "idle" /\ pc' = "fetch" /\ Len(chatHistory) = 1 /\ chatHistory[1].text = WelcomeText) =>
           /\ Len(Last(writeQ').messages) = 2
           /\ Last(writeQ').messages[1] = chatHistory[1]
           /\ Last(writeQ').messages[1].role = "model"
           /\ Last(writeQ').messages[2].role = "user"
    ]_vars

\* C20 witness: the optimistic write of the first turn after seeding has
\* succeeded; the document, absent or empty until then, holds the welcome
\* message first and the question second
C20_Witness ==
  /\ turns = 0
  /\ pc # "idle"
  /\ remoteWrites = 0
  /\ startHistory = <<WelcomeMessage(0)>>
  /\ storeDoc = Doc(TRUE, TRUE, updatedHistory)
  /\ storeDoc.messages[1].text = WelcomeText
  /\ Len(storeDoc.messages) = 2

\* C21: with completion calls and store writes that return, and timers that
\* fire, a turn that has started (isProcessing true) ends: isProcessing is
\* false again and the turn is back at rest.
C21_TurnEnds ==
  isProcessing ~> (~isProcessing /\ pc = "idle")

\* C21 witness: a turn that went through three 429s and the catch block has
\* ended with isProcessing false
C21_Witness ==
  /\ turns = 1
  /\ pc = "idle"
  /\ ~isProcessing
  /\ now >= 3000
  /\ Last(chatHistory).text = ApologyText

\* C22: once the turn has left the fetch loop, the transcript it set and the
\* list of its awaited write are both the transcript the turn started from plus
\* the user message and one model message, whatever snapshots were applied in
\* between; a message the starting transcript did not hold is in neither.
C22_ResultIgnoresSnapshots ==
  pc = "write" =>
    /\ ExtendsByTurn(turnSet, startHistory, query)
    /\ AwaitedIssued
    /\ \A i \in 1..Len(writeQ) : writeQ[i].awaited => writeQ[i].messages = turnSet
    /\ \A k \in 1..Len(RemoteHistory) :
         ~Holds(startHistory, RemoteHistory[k]) => ~Holds(turnSet, RemoteHistory[k])

\* C22 witness: another session's list was written and delivered after the
\* turn began from a different transcript; the turn has since set its own
\* result, which holds none of that list, and queued it for the final write
\* over the other session's document
C22_Witness ==
  /\ pc = "write"
  /\ remoteWrites = 1
  /\ listener = "on"
  /\ snapQ = <<>>
  /\ storeDoc = Doc(TRUE, TRUE, RemoteHistory)
  /\ startHistory # RemoteHistory
  /\ chatHistory = turnSet
  /\ ~Holds(turnSet, RemoteHistory[1])
  /\ Last(writeQ).messages = turnSet

\* a is a prefix of b
IsPrefix(a, b) == Len(a) <= Len(b) /\ SubSeq(b, 1, Len(a)) = a

\* C23: with no other session writing, every list a turn has sent to the store
\* has the persisted list as a prefix, so that no write shortens the persisted
\* history, also in a turn started after a read error.
C23_WriteExtendsPersisted ==
  remoteWrites = 0 =>
    \A i \in 1..Len(writeQ) : IsPrefix(storeDoc.messages, writeQ[i].messages)

\* C24: with no other session writing, when the last turn has ended, its awaited
\* write has succeeded, no write is outstanding and the listener has been handed
\* every snapshot, the transcript in memory is the persisted list; this holds in
\* every such state, so from the last delivery until the next turn starts.
C24_ConvergesAtQuiescence ==
  ( /\ remoteWrites = 0
    /\ pc = "idle"
    /\ lastFinalOk
    /\ writeQ = <<>>
    /\ listener = "on"
    /\ snapQ = <<>> ) =>
      /\ NonEmptyList(storeDoc)
      /\ SameMessages(chatHistory, storeDoc.messages)

\* C24 witness: a turn has ended with its final write persisted and both echoes
\* delivered; memory and document hold the welcome, the question and the reply
C24_Witness ==
  /\ remoteWrites = 0
  /\ pc = "idle"
  /\ turns = 1
  /\ lastFinalOk
  /\ writeQ = <<>>
  /\ listener = "on"
  /\ snapQ = <<>>
  /\ Len(chatHistory) = 3
  /\ chatHistory[1].text = WelcomeText
  /\ Last(chatHistory).text = <<"A">>
  /\ chatHistory = storeDoc.messages

\* C25: the contents built for the turn, and sent with every attempt, have one
\* entry per message of the starting transcript plus the user message, in the
\* same order; each entry has the role 'model' or 'user', 'model' for a message
\* stored with the role the program gives its own replies ('model') and 'user'
\* for a user message, and exactly one part, which is the message's text.
C25_ContentsMapTranscript ==
  pc # "idle" =>
    LET src == Append(startHistory, Message("user", query, 0)) IN
    /\ lastRequest = payload
    /\ Len(payload) = Len(src)
    /\ \A i \in 1..Len(payload) :
         /\ payload[i].role \in {"model", "user"}
         /\ src[i].role = "model" => payload[i].role = "model"
         /\ src[i].role = "user" => payload[i].role = "user"
         /\ Len(payload[i].parts) = 1
         /\ payload[i].parts[1].text = src[i].text
    /\ \A i \in 1..Len(updatedHistory) : payload[i].parts[1].text = updatedHistory[i].text

\* C25 witness: a turn begun from a hydrated conversation of a user and a model
\* message sends three entries with the roles user, model, user
C25_Witness ==
  /\ pc = "fetch"
  /\ startHistory = PriorHistory
  /\ Len(lastRequest) = 3
  /\ lastRequest[1].role = "user"
  /\ lastRequest[2].role = "model"
  /\ lastRequest[3].role = "user"
  /\ lastRequest[3].parts = <<[text |-> <<"q">>]>>

====
